---- MODULE Spec2Model ----
(***************************************************************************)
(* A model of copy_arena (src/src/lib.rs): a bump allocator made of a      *)
(* newest-first chain of fixed-capacity chunks.                            *)
(*                                                                         *)
(* usize is modelled with UsizeBits bits.  A chunk is a Vec<u8>: a buffer  *)
(* identity, a capacity, a length (the bump offset) and its bytes; a byte  *)
(* never written is Uninit.  Vec::with_capacity(n) yields capacity n and   *)
(* panics with "capacity overflow" when n exceeds isize::MAX; running out  *)
(* of memory below that size is left out.  Buffers are taken to start at   *)
(* an address aligned for every type of TypeSet, as the global allocator   *)
(* makes them, so a region is addressed by its buffer and its offset.      *)
(*                                                                         *)
(* One allocation call is modelled step by step, as the code runs it:      *)
(* the entry of the typed operation, every probe of the loop of alloc_raw, *)
(* every growth, every element written.                                    *)
(***************************************************************************)
EXTENDS Integers, Sequences, FiniteSets, TLC

\* ------------------------------------------------------------------ bounds
UsizeBits == 6
MaxCalls == 2
MaxLen == 2
MaxInitCap == 4

\* ------------------------------------------------------------- arithmetic
RECURSIVE Pow(_, _)
Pow(b, n) == IF n = 0 THEN 1 ELSE b * Pow(b, n - 1)

\* usize::MAX and isize::MAX
MAX == Pow(2, UsizeBits) - 1
ISIZE_MAX == Pow(2, UsizeBits - 1) - 1

Wrap(x) == x % (MAX + 1)

RECURSIVE BitAndN(_, _, _)
BitAndN(a, b, n) ==
    IF n = 0 THEN 0
    ELSE (IF a % 2 = 1 /\ b % 2 = 1 THEN 1 ELSE 0)
         + 2 * BitAndN(a \div 2, b \div 2, n - 1)

BitAnd(a, b) == BitAndN(a, b, UsizeBits)
BitNot(a) == MAX - a

cmp_max(a, b) == IF a >= b THEN a ELSE b
cmp_min(a, b) == IF a <= b THEN a ELSE b

\* fn round_up(base, align): (base + (align - 1)) & !(align - 1)
round_up_floor(base, align) == BitAnd(base, BitNot(align - 1))
round_up(base, align) == BitAnd(Wrap(base + (align - 1)), BitNot(align - 1))

\* usize::checked_mul: None is modelled as -1
checked_mul_wrapping(a, b) == Wrap(a * b)
checked_mul(a, b) == IF a * b > MAX THEN -1 ELSE a * b

\* ------------------------------------------------------------------ types
\* The element types T of the typed operations, by size_of and min_align_of:
\* [u32; 0], u8, u32.
TypeSet == { [size |-> 0, align |-> 4], [size |-> 1, align |-> 1],
             [size |-> 4, align |-> 4] }

\* size_of::<[T; 7]>()
size_of_array7(T) == 7 * T.size

Uninit == -1
DefaultValue == 0
Values == {44, 772}
ValuesOf(T) ==
    IF T.size = 0 THEN {0} ELSE {v \in Values : v \div Pow(256, T.size - 1) < 256}

\* the little-endian bytes of a value of a type of `size` bytes
to_bytes(v, size) == [i \in 1..size |-> (v \div Pow(256, i - 1)) % 256]

RECURSIVE from_bytes(_)
from_bytes(bs) ==
    IF Len(bs) = 0 THEN 0 ELSE Head(bs) + 256 * from_bytes(Tail(bs))

\* the closures handed to alloc_slice_fn: idx -> (idx as T) * k, in T's arithmetic
FnMults == {7}
f(k, idx, T) == from_bytes(to_bytes(idx * k, T.size))

\* lengths asked of alloc_slice_fn and of alloc_slice_default
SliceLens == (0..MaxLen) \cup {ISIZE_MAX, MAX \div 2 + 1, MAX}
DefaultLens == {0, MaxLen, MAX}

\* the slices handed to alloc_slice: n elements of T, all different
Largest(T) == CHOOSE v \in ValuesOf(T) : \A w \in ValuesOf(T) : w <= v
Source(T, n) == [i \in 1..n |-> IF T.size = 0 THEN 0 ELSE Largest(T) - i]
Sources(T) == {Source(T, n) : n \in 0..MaxLen}

\* ------------------------------------------------------------------ state
VARIABLES
    chain,      \* the chunks, head first: chain[1] is Arena.head, chain[i+1] is chain[i].next
    pc,         \* "idle", "probe", "write", "copy", "fill", "aborted"
    req,        \* the call in progress (or the last one)
    cur,        \* the region alloc_raw returned to the call in progress
    idx,        \* the position of the element loop of the slice operations
    fcalls,     \* the indices the closure was called with, in order, during this call
    probes,     \* the probes of the loop of alloc_raw during this call
    abort,      \* "none", or the panic that ended the process
    refs,       \* every reference returned so far, with the value stored through it
    created,    \* the capacity of every buffer Vec::with_capacity has made, in order
    calls,      \* the number of calls made
    ru          \* round_up on its own: its arguments and what it returned

arena_vars == <<chain, pc, req, cur, idx, fcalls, probes, abort, refs, created, calls>>
vars == <<chain, pc, req, cur, idx, fcalls, probes, abort, refs, created, calls, ru>>

NoReq == [op |-> "none", T |-> [size |-> 0, align |-> 1], size |-> 0, len |-> 0,
          elems |-> <<>>, k |-> 0]
NoRegion == [buf |-> 0, start |-> 0, size |-> 0]
NoRound == [state |-> "none", base |-> 0, align |-> 1, result |-> 0, again |-> 0]

\* ------------------------------------------------------------------ Chunk
\* Vec::with_capacity(capacity) as a Chunk with no successor
NewChunk(buf, capacity) ==
    [buf |-> buf, cap |-> capacity, len |-> 0, data |-> [i \in 1..capacity |-> Uninit]]

\* Chunk::attempt_alloc: the offset of the region, or -1 for None
attempt_alloc_start_unchecked(c, size, align) == round_up(c.len, align)
attempt_alloc_start_strict(c, size, align) ==
    LET start == round_up(c.len, align)
    IN  IF size <= c.cap /\ start < c.cap - size THEN start ELSE -1
attempt_alloc_start_unaligned(c, size, align) ==
    IF size <= c.cap /\ c.len <= c.cap - size THEN c.len ELSE -1
attempt_alloc_start(c, size, align) ==
    LET start == round_up(c.len, align)
    IN  IF size <= c.cap /\ start <= c.cap - size THEN start ELSE -1

\* Chunk::attempt_alloc: the chunk afterwards (set_len on success)
attempt_alloc_chunk_no_bump(c, size, align) == c
attempt_alloc_chunk_pad(c, size, align) ==
    LET start == attempt_alloc_start(c, size, align)
    IN  IF start >= 0 THEN [c EXCEPT !.len = start + size]
        ELSE [c EXCEPT !.len = round_up(c.len, align)]
attempt_alloc_chunk_from_zero(c, size, align) ==
    LET start == attempt_alloc_start(c, size, align)
    IN  IF start >= 0 THEN [c EXCEPT !.len = size] ELSE c
attempt_alloc_chunk(c, size, align) ==
    LET start == attempt_alloc_start(c, size, align)
    IN  IF start >= 0 THEN [c EXCEPT !.len = start + size] ELSE c

\* ------------------------------------------------------------------ Arena
\* Arena::add_chunk: the new chunk becomes head, the old head its next
add_chunk_drop(ch, buf, chunk_size) == <<NewChunk(buf, chunk_size)>>
add_chunk_wipe(ch, buf, chunk_size) ==
    <<NewChunk(buf, chunk_size)>>
        \o [i \in 1..Len(ch) |-> [ch[i] EXCEPT !.data = [j \in 1..Len(@) |-> Uninit]]]
add_chunk_reset(ch, buf, chunk_size) ==
    <<NewChunk(buf, chunk_size)>> \o [ch EXCEPT ![1].len = 0]
add_chunk_no_swap(ch, buf, chunk_size) ==
    <<ch[1], NewChunk(buf, chunk_size)>> \o Tail(ch)
add_chunk(ch, buf, chunk_size) == <<NewChunk(buf, chunk_size)>> \o ch

\* Arena::capacity: the walk from head along next, summing data.capacity()
RECURSIVE capacity_of_len(_)
capacity_of_len(ch) ==
    IF ch = <<>> THEN 0 ELSE Head(ch).len + capacity_of_len(Tail(ch))

RECURSIVE capacity(_)
capacity(ch) == IF ch = <<>> THEN 0 ELSE Head(ch).cap + capacity(Tail(ch))

\* the growth size of alloc_raw
new_chunk_size_of_len(head, size) == 2 * cmp_min(head.len, MAX \div 2)
new_chunk_size_of_size(head, size) == 2 * cmp_min(size, MAX \div 2)
new_chunk_size_undoubled(head, size) == cmp_min(cmp_max(head.len, size), MAX \div 2)
new_chunk_size_min(head, size) == 2 * cmp_min(cmp_min(head.len, size), MAX \div 2)
new_chunk_size(head, size) ==
    LET minimum_reasonable == cmp_max(head.len, size)
    IN  2 * cmp_min(minimum_reasonable, MAX \div 2)


\* ------------------------------------------------------------- memory
\* the position in the chain of the chunk that owns buffer buf
ChunkOf(ch, buf) == CHOOSE i \in 1..Len(ch) : ch[i].buf = buf

\* a store of the bytes bs through a pointer to offset off of buffer buf
WriteBytes(ch, buf, off, bs) ==
    IF Len(bs) = 0 THEN ch
    ELSE LET i == ChunkOf(ch, buf)
         IN  [ch EXCEPT ![i].data =
                 [j \in 1..Len(@) |->
                     IF j > off /\ j <= off + Len(bs) THEN bs[j - off] ELSE @[j]]]

\* the bytes read through a pointer to offset off of buffer buf
ReadBytes(ch, buf, off, n) ==
    IF n = 0 THEN <<>>
    ELSE LET i == ChunkOf(ch, buf)
         IN  [j \in 1..n |-> ch[i].data[off + j]]

\* the values read through a returned reference (one value, or a slice)
ReadRef(ch, r) ==
    [j \in 1..r.n |-> from_bytes(ReadBytes(ch, r.buf, r.start + (j - 1) * r.tsize, r.tsize))]

\* the reference the call in progress returns
Returned(values) ==
    [buf |-> cur.buf, start |-> cur.start, size |-> cur.size, align |-> req.T.align,
     tsize |-> req.T.size, n |-> Len(values), vals |-> values, op |-> req.op]

\* ------------------------------------------------------------------ Init
\* Arena::with_capacity(capacity) and Arena::allocator()
InitArena(n) ==
    /\ chain = <<NewChunk(1, n)>>
    /\ created = <<n>>
    /\ pc = "idle"
    /\ req = NoReq
    /\ cur = NoRegion
    /\ idx = 0
    /\ fcalls = <<>>
    /\ probes = 0
    /\ abort = "none"
    /\ refs = <<>>
    /\ calls = 0

Init ==
    \E n \in 0..MaxInitCap : InitArena(n) /\ ru = NoRound

\* the entry of a call: alloc_raw is about to run its loop
Enter(r) ==
    /\ req' = r
    /\ pc' = "probe"
    /\ cur' = NoRegion
    /\ idx' = 0
    /\ fcalls' = <<>>
    /\ probes' = 0
    /\ calls' = calls + 1
    /\ UNCHANGED <<chain, abort, refs, created, ru>>

\* a panic: the process ends
Panic(r, why) ==
    /\ req' = r
    /\ pc' = "aborted"
    /\ abort' = why
    /\ cur' = NoRegion
    /\ idx' = 0
    /\ fcalls' = <<>>
    /\ probes' = 0
    /\ calls' = calls + 1
    /\ UNCHANGED <<chain, refs, created, ru>>

\* ------------------------------------------------------------- Allocator
\* Allocator::alloc(elem), up to the call of alloc_raw
alloc(T, elem) ==
    /\ pc = "idle"
    /\ calls < MaxCalls
    /\ Enter([op |-> "alloc", T |-> T, size |-> T.size, len |-> 1,
              elems |-> <<elem>>, k |-> 0])

\* Allocator::alloc_default(): self.alloc(Default::default())
alloc_default(T) ==
    /\ pc = "idle"
    /\ calls < MaxCalls
    /\ Enter([op |-> "alloc_default", T |-> T, size |-> T.size, len |-> 1,
              elems |-> <<DefaultValue>>, k |-> 0])

\* Allocator::alloc_slice_raw(len), up to the call of alloc_raw
alloc_slice_raw(r) ==
    LET element_size == cmp_max(r.T.size, r.T.align)
        byte_count == checked_mul(element_size, r.len)
    IN  IF size_of_array7(r.T) # 7 * element_size
        THEN Panic(r, "assertion failed")
        ELSE IF byte_count = -1
        THEN Panic(r, "Arena slice size overflow")
        ELSE Enter([r EXCEPT !.size = byte_count])

\* Allocator::alloc_slice(elems), up to the call of alloc_raw
alloc_slice(T, elems) ==
    /\ pc = "idle"
    /\ calls < MaxCalls
    /\ alloc_slice_raw([op |-> "alloc_slice", T |-> T, size |-> 0, len |-> Len(elems),
                        elems |-> elems, k |-> 0])

\* Allocator::alloc_slice_fn(len, f), up to the call of alloc_raw
alloc_slice_fn(T, len, k) ==
    /\ pc = "idle"
    /\ calls < MaxCalls
    /\ alloc_slice_raw([op |-> "alloc_slice_fn", T |-> T, size |-> 0, len |-> len,
                        elems |-> <<>>, k |-> k])

\* Allocator::alloc_slice_default(len): self.alloc_slice_fn(len, |_| Default::default())
alloc_slice_default(T, len) ==
    /\ pc = "idle"
    /\ calls < MaxCalls
    /\ alloc_slice_raw([op |-> "alloc_slice_default", T |-> T, size |-> 0, len |-> len,
                        elems |-> <<>>, k |-> 0])

\* where a call continues once alloc_raw has returned
AfterRaw(op) ==
    IF op \in {"alloc", "alloc_default"} THEN "write"
    ELSE IF op = "alloc_slice" THEN "copy"
    ELSE "fill"

\* alloc_raw, an iteration of the loop whose probe succeeds: the region is returned
alloc_raw_some ==
    /\ pc = "probe"
    /\ LET head == chain[1]
           start == attempt_alloc_start(head, req.size, req.T.align)
       IN  /\ start >= 0
           /\ chain' = [chain EXCEPT ![1] = attempt_alloc_chunk(head, req.size, req.T.align)]
           /\ cur' = [buf |-> head.buf, start |-> start, size |-> req.size]
    /\ probes' = probes + 1
    /\ pc' = AfterRaw(req.op)
    /\ UNCHANGED <<req, idx, fcalls, abort, refs, created, calls, ru>>

\* alloc_raw, an iteration of the loop whose probe fails: the arena grows, or
\* Vec::with_capacity panics
alloc_raw_none ==
    /\ pc = "probe"
    /\ LET head == chain[1]
           start == attempt_alloc_start(head, req.size, req.T.align)
           probed == attempt_alloc_chunk(head, req.size, req.T.align)
           chunk_size == new_chunk_size(probed, req.size)
       IN  /\ start = -1
           /\ IF chunk_size > ISIZE_MAX
              THEN /\ pc' = "aborted"
                   /\ abort' = "capacity overflow"
                   /\ chain' = [chain EXCEPT ![1] = probed]
                   /\ UNCHANGED created
              ELSE /\ pc' = "probe"
                   /\ chain' = add_chunk([chain EXCEPT ![1] = probed],
                                         Len(created) + 1, chunk_size)
                   /\ created' = Append(created, chunk_size)
                   /\ UNCHANGED abort
    /\ probes' = probes + 1
    /\ UNCHANGED <<req, cur, idx, fcalls, refs, calls, ru>>

\* Allocator::alloc: *res = elem, and the return of res
alloc_write ==
    /\ pc = "write"
    /\ chain' = WriteBytes(chain, cur.buf, cur.start, to_bytes(req.elems[1], req.T.size))
    /\ refs' = Append(refs, Returned(req.elems))
    /\ pc' = "idle"
    /\ UNCHANGED <<req, cur, idx, fcalls, probes, abort, created, calls, ru>>

\* Allocator::alloc_slice: one turn of the loop over slice.iter_mut().zip(elems.iter())
alloc_slice_copy_first ==
    /\ pc = "copy"
    /\ idx < cmp_min(req.len, Len(req.elems))
    /\ chain' = WriteBytes(chain, cur.buf, cur.start + idx * req.T.size,
                           to_bytes(req.elems[1], req.T.size))
    /\ idx' = idx + 1
    /\ UNCHANGED <<pc, req, cur, fcalls, probes, abort, refs, created, calls, ru>>

alloc_slice_copy ==
    /\ pc = "copy"
    /\ idx < cmp_min(req.len, Len(req.elems))
    /\ chain' = WriteBytes(chain, cur.buf, cur.start + idx * req.T.size,
                           to_bytes(req.elems[idx + 1], req.T.size))
    /\ idx' = idx + 1
    /\ UNCHANGED <<pc, req, cur, fcalls, probes, abort, refs, created, calls, ru>>

\* Allocator::alloc_slice: the loop is over, the slice is returned
alloc_slice_return ==
    /\ pc = "copy"
    /\ idx >= cmp_min(req.len, Len(req.elems))
    /\ refs' = Append(refs, Returned(ReadRef(chain, Returned([j \in 1..req.len |-> 0]))))
    /\ pc' = "idle"
    /\ UNCHANGED <<chain, req, cur, idx, fcalls, probes, abort, created, calls, ru>>

\* the closure of the call in progress, applied to an index
closure(r, i) == IF r.op = "alloc_slice_default" THEN DefaultValue ELSE f(r.k, i, r.T)

\* Allocator::alloc_slice_fn: one turn of the loop over slice.iter_mut().enumerate()
alloc_slice_fn_fill_from_one ==
    /\ pc = "fill"
    /\ idx < req.len
    /\ fcalls' = Append(fcalls, idx + 1)
    /\ chain' = WriteBytes(chain, cur.buf, cur.start + idx * req.T.size,
                           to_bytes(closure(req, idx + 1), req.T.size))
    /\ idx' = idx + 1
    /\ UNCHANGED <<pc, req, cur, probes, abort, refs, created, calls, ru>>

alloc_slice_fn_fill ==
    /\ pc = "fill"
    /\ idx < req.len
    /\ fcalls' = Append(fcalls, idx)
    /\ chain' = WriteBytes(chain, cur.buf, cur.start + idx * req.T.size,
                           to_bytes(closure(req, idx), req.T.size))
    /\ idx' = idx + 1
    /\ UNCHANGED <<pc, req, cur, probes, abort, refs, created, calls, ru>>

\* Allocator::alloc_slice_fn: the loop is over, the slice is returned
alloc_slice_fn_return ==
    /\ pc = "fill"
    /\ idx >= req.len
    /\ refs' = Append(refs, Returned(ReadRef(chain, Returned([j \in 1..req.len |-> 0]))))
    /\ pc' = "idle"
    /\ UNCHANGED <<chain, req, cur, idx, fcalls, probes, abort, created, calls, ru>>

Next ==
    \/ \E T \in TypeSet : \E elem \in ValuesOf(T) : alloc(T, elem)
    \/ \E T \in TypeSet : alloc_default(T)
    \/ \E T \in TypeSet : \E elems \in Sources(T) : alloc_slice(T, elems)
    \/ \E T \in TypeSet : \E len \in SliceLens : \E k \in FnMults : alloc_slice_fn(T, len, k)
    \/ \E T \in TypeSet : \E len \in DefaultLens : alloc_slice_default(T, len)
    \/ alloc_raw_some
    \/ alloc_raw_none
    \/ alloc_write
    \/ alloc_slice_copy
    \/ alloc_slice_return
    \/ alloc_slice_fn_fill
    \/ alloc_slice_fn_return

Spec == Init /\ [][Next]_vars

\* ------------------------------------------------------ round_up alone
\* the alignments: the powers of two of usize
Aligns == {Pow(2, i) : i \in 0..(UsizeBits - 1)}

InitRound ==
    /\ InitArena(MaxInitCap)
    /\ \E base \in 0..MAX : \E align \in Aligns :
          ru = [state |-> "called", base |-> base, align |-> align,
                result |-> 0, again |-> 0]

\* round_up(base, align) returns; base + (align - 1) wraps where it overflows
\* (a build without overflow checks)
round_up_return ==
    /\ ru.state = "called"
    /\ ru' = [ru EXCEPT !.state = "returned", !.result = round_up(ru.base, ru.align)]
    /\ UNCHANGED arena_vars

\* round_up(base, align) panics: base + (align - 1) overflows in a build with
\* overflow checks
round_up_overflow ==
    /\ ru.state = "called"
    /\ ru.base + (ru.align - 1) > MAX
    /\ ru' = [ru EXCEPT !.state = "panicked"]
    /\ UNCHANGED arena_vars

\* round_up(round_up(base, align), align) returns
round_up_again ==
    /\ ru.state = "returned"
    /\ ru.result + (ru.align - 1) <= MAX
    /\ ru' = [ru EXCEPT !.state = "twice", !.again = round_up(ru.result, ru.align)]
    /\ UNCHANGED arena_vars

NextRound ==
    \/ round_up_return
    \/ round_up_overflow
    \/ round_up_again

RoundSpec == InitRound /\ [][NextRound]_vars


\* ================================================================ claims
\* every region alloc_raw has returned: those of the calls that have returned
\* and the one of the call in progress
Regions ==
    [i \in 1..Len(refs) |-> [buf |-> refs[i].buf, start |-> refs[i].start, size |-> refs[i].size]]
        \o (IF pc \in {"write", "copy", "fill"} THEN <<cur>> ELSE <<>>)

Bytes(r) == r.start .. (r.start + r.size - 1)

RECURSIVE Sum(_)
Sum(s) == IF s = <<>> THEN 0 ELSE Head(s) + Sum(Tail(s))

IsSlice(r) == r.op \in {"alloc_slice", "alloc_slice_fn", "alloc_slice_default"}
JustReturned(op) == pc = "idle" /\ req.op = op /\ Len(refs) > 0
LastRef == refs[Len(refs)]

\* C1: no two regions returned by alloc_raw overlap: two regions of the same
\* buffer have disjoint byte ranges, and the chunks of the chain have
\* different buffers, each region lying in one of them.
C1_NoOverlap ==
    /\ \A i, j \in 1..Len(Regions) :
          (i < j /\ Regions[i].buf = Regions[j].buf)
              => Bytes(Regions[i]) \cap Bytes(Regions[j]) = {}
    /\ \A i, j \in 1..Len(chain) : i # j => chain[i].buf # chain[j].buf
    /\ \A i \in 1..Len(Regions) : \E c \in 1..Len(chain) : chain[c].buf = Regions[i].buf

\* two regions of one byte or more have been returned from the same chunk
C1_Witness ==
    \E i, j \in 1..Len(Regions) :
        /\ i < j
        /\ Regions[i].buf = Regions[j].buf
        /\ Regions[i].size > 0
        /\ Regions[j].size > 0

\* C2: every returned region lies within the chunk that produced it
\* (start + size <= capacity) and every chunk of the chain has 0 <= L <= C.
C2_WithinBounds ==
    /\ \A i \in 1..Len(Regions) : \A c \in 1..Len(chain) :
          chain[c].buf = Regions[i].buf
              => /\ 0 <= Regions[i].start
                 /\ Regions[i].start + Regions[i].size <= chain[c].cap
    /\ \A c \in 1..Len(chain) : 0 <= chain[c].len /\ chain[c].len <= chain[c].cap

\* a region ends exactly at the end of its chunk, after padding
C2_Witness ==
    \E i \in 1..Len(Regions) : \E c \in 1..Len(chain) :
        /\ chain[c].buf = Regions[i].buf
        /\ Regions[i].size > 0
        /\ Regions[i].start + Regions[i].size = chain[c].cap
        /\ chain[c].len = chain[c].cap

\* C3: reading a returned reference yields the value stored through it, now
\* and after every later allocation and growth (checked for the references
\* alloc returns and for the returned slices alike).
C3_ValuesStable ==
    \A i \in 1..Len(refs) : ReadRef(chain, refs[i]) = refs[i].vals

\* a value alloc stored is read back from a sealed chunk, after a later call
C3_Witness ==
    \E i \in 1..Len(refs) :
        /\ refs[i].op = "alloc"
        /\ refs[i].size > 1
        /\ refs[i].vals # <<0>>
        /\ i < Len(refs)
        /\ refs[i].buf # chain[1].buf

\* C4 as claimed: a call returns or aborts with the slice size overflow.
C4_OnlyOverflowAborts ==
    abort \in {"none", "Arena slice size overflow"}

\* C4, amended: a call returns after at most two probes (a probe that follows
\* a growth succeeds), or aborts: with the slice size overflow, with the
\* failed element-size assertion (T zero-sized), or with the capacity overflow
\* of Vec::with_capacity when the growth size exceeds isize::MAX.
C4_ReturnsOrAborts ==
    /\ probes <= 2
    /\ (pc = "probe" => probes <= 1)
    /\ (pc \in {"write", "copy", "fill", "idle"} => abort = "none")
    /\ (pc = "aborted" =>
          \/ /\ abort = "Arena slice size overflow"
             /\ IsSlice(req) /\ cmp_max(req.T.size, req.T.align) * req.len > MAX
             /\ probes = 0
          \/ /\ abort = "assertion failed"
             /\ IsSlice(req) /\ req.T.size = 0
             /\ probes = 0
          \/ /\ abort = "capacity overflow"
             /\ probes = 1
             /\ 2 * cmp_max(chain[1].len, req.size) > ISIZE_MAX)

\* a call returned after a growth, and the next one ended in the capacity overflow
C4_Witness ==
    /\ abort = "capacity overflow"
    /\ Len(refs) = 1
    /\ refs[1].buf = 2

\* C5: capacity() never decreases.
C5_CapacityMonotonic ==
    [][capacity(chain') >= capacity(chain)]_vars

\* the arena has grown: capacity() exceeds the initial capacity
C5_Witness ==
    Len(chain) >= 2 /\ capacity(chain) > created[1]

\* C6: capacity() is the sum of the capacities of every chunk ever created,
\* whatever the fill lengths.
C6_CapacityIsSum ==
    capacity(chain) = Sum(created)

\* three chunks were created, one of them partly filled
C6_Witness ==
    /\ Len(created) >= 3
    /\ \E c \in 1..Len(chain) : 0 < chain[c].len /\ chain[c].len < chain[c].cap


\* the byte count of the slice a call asks for, as a number (never wrapped)
ByteCount(r) == cmp_max(r.T.size, r.T.align) * r.len

C7_NeverTruncated ==
    /\ (IsSlice(req) /\ ByteCount(req) > MAX) =>
          /\ pc = "aborted"
          /\ abort \in {"Arena slice size overflow", "assertion failed"}
          /\ (abort = "assertion failed" => req.T.size = 0)
          /\ (abort = "Arena slice size overflow" => req.T.size > 0)
    /\ (IsSlice(req) /\ pc # "aborted") => req.size = ByteCount(req)

Grows == Len(chain') = Len(chain) + 1

\* C8 as claimed: the new head is larger than the head it supersedes.
C8_LargerThanCapacity ==
    [][Grows => chain'[1].cap > chain[1].cap]_vars

\* C8, amended: the new head's capacity is strictly greater than the fill
\* length of the head it supersedes (it may be less than its capacity).
C8_LargerThanLength ==
    [][Grows => (chain'[1].cap > chain[1].len /\ chain'[2] = chain[1])]_vars

\* a growth has put a head in front of a chunk of greater capacity
C8_Witness ==
    /\ Len(chain) >= 2
    /\ chain[1].cap < chain[2].cap
    /\ chain[1].cap > chain[2].len

\* the indices 0 .. n-1 in ascending order
Ascending(n) == [i \in 1..n |-> i - 1]

\* C9: alloc_slice_fn(len, f) calls f once for each index 0 .. len-1, in
\* ascending order, after the region is reserved, and returns a slice of
\* len elements with element i equal to f(i); f is not called when len = 0.
C9_SliceFn ==
    /\ (pc \in {"probe", "aborted"}) => fcalls = <<>>
    /\ (pc = "fill" /\ req.op = "alloc_slice_fn") =>
          /\ idx <= req.len
          /\ fcalls = Ascending(idx)
          /\ cur.buf = chain[1].buf
          /\ cur.size = req.T.size * req.len
          /\ cur.start + cur.size = chain[1].len
    /\ JustReturned("alloc_slice_fn") =>
          /\ fcalls = Ascending(req.len)
          /\ LastRef.n = req.len
          /\ \A i \in 1..req.len : LastRef.vals[i] = f(req.k, i - 1, req.T)
          /\ ReadRef(chain, LastRef) = LastRef.vals

\* a slice of MaxLen four-byte elements was filled after a growth
C9_Witness ==
    /\ JustReturned("alloc_slice_fn")
    /\ req.len = MaxLen
    /\ req.T.size = 4
    /\ probes = 2
    /\ LastRef.vals[MaxLen] = (MaxLen - 1) * 7

\* C10: alloc_slice(source) returns a slice of the length of source whose
\* element i is source[i]; the source is as it was handed in.
C10_SliceCopy ==
    /\ (pc = "copy") => (idx <= req.len /\ req.elems = Source(req.T, req.len))
    /\ JustReturned("alloc_slice") =>
          /\ LastRef.n = Len(req.elems)
          /\ LastRef.vals = req.elems
          /\ ReadRef(chain, LastRef) = req.elems
          /\ req.elems = Source(req.T, req.len)

\* a source of MaxLen four-byte elements was copied after a growth
C10_Witness ==
    /\ JustReturned("alloc_slice")
    /\ req.len = MaxLen
    /\ req.T.size = 4
    /\ probes = 2


\* a probe of the head is about to run; what it decides, told from the step taken
Probing == pc = "probe"
ProbeFailed == pc = "probe" /\ pc' \in {"probe", "aborted"}
ProbeSucceeded == pc = "probe" /\ pc' \in {"write", "copy", "fill"}

\* C11: with start = round_up(length, align), attempt_alloc succeeds if and
\* only if start + size <= capacity; on success the length becomes
\* start + size and the region begins at offset start.
C11_SucceedsIffFits ==
    [][Probing =>
          LET start == round_up(chain[1].len, req.T.align)
          IN  IF start + req.size <= chain[1].cap
              THEN /\ ProbeSucceeded
                   /\ Len(chain') = Len(chain)
                   /\ chain'[1].len = start + req.size
                   /\ cur' = [buf |-> chain[1].buf, start |-> start, size |-> req.size]
              ELSE ProbeFailed]_vars

\* a region was returned that fills a partly filled chunk to its last byte
C11_Witness ==
    /\ pc \in {"write", "copy", "fill"}
    /\ cur.start > 0
    /\ cur.size > 0
    /\ cur.start + cur.size = chain[1].cap
    /\ \E i \in 1..Len(refs) : refs[i].buf = cur.buf /\ refs[i].size > 0

\* C12: a failed attempt_alloc changes nothing of the chunk: its length,
\* capacity, contents and the chain behind it are as before.
C12_FailedProbeIsPure ==
    [][ProbeFailed =>
          IF Len(chain') = Len(chain) THEN chain' = chain ELSE Tail(chain') = chain]_vars

\* a probe has failed on a partly filled head, by the padding alone
C12_Witness ==
    /\ pc = "probe"
    /\ probes = 1
    /\ Len(chain) >= 2
    /\ chain[2].len > 0
    /\ chain[2].len + req.size <= chain[2].cap
    /\ round_up(chain[2].len, req.T.align) > chain[2].len

\* the growth size a failed probe of the head leads to
GrowthSize == new_chunk_size(chain[1], req.size)
AboutToGrow ==
    pc = "probe" /\ attempt_alloc_start(chain[1], req.size, req.T.align) = -1

\* C13 as claimed: the growth size is >= size for every request size.
C13_GrowthSizeCoversEverySize ==
    AboutToGrow => GrowthSize >= req.size

\* C13, amended: every chunk created by growth is large enough for the
\* request that failed, and the growth size 2 x min(max(L, size), MAX / 2)
\* is >= size for every size <= MAX - 1; for size = MAX it is MAX - 1, and
\* no chunk is created.
C13_GrowthSizeCovers ==
    /\ AboutToGrow =>
          /\ (req.size <= MAX - 1 => GrowthSize >= req.size)
          /\ (req.size = MAX => GrowthSize = MAX - 1 /\ GrowthSize > ISIZE_MAX)
    /\ (pc = "probe" /\ probes = 1) => chain[1].cap >= req.size

\* a growth is due for a request of more than MAX / 2 and less than MAX bytes
C13_Witness ==
    AboutToGrow /\ req.size > MAX \div 2 /\ req.size < MAX /\ chain[1].len > 0


\* where chunk i of the chain is after a step
After(i) == i + Len(chain') - Len(chain)

\* C15: a chunk that is no longer head never changes again (length, capacity,
\* contents), the step that supersedes it included, and a region is returned
\* from the chunk that is head when alloc_raw returns.
C15_SealedChunks ==
    /\ [](pc \in {"write", "copy", "fill"} => cur.buf = chain[1].buf)
    /\ [][\A i \in 1..Len(chain) :
             (i >= 2 \/ Grows) => (After(i) \in 1..Len(chain') /\ chain'[After(i)] = chain[i])]_vars
    /\ [][Len(refs') > Len(refs) => refs'[Len(refs')].buf = chain'[1].buf]_vars

\* a value is being stored in the head while a sealed chunk holds earlier values
C15_Witness ==
    /\ pc = "write"
    /\ cur.size > 0
    /\ Len(chain) >= 2
    /\ chain[2].len > 0
    /\ \E i \in 1..Len(refs) : refs[i].buf = chain[2].buf /\ refs[i].size > 0

C16_NewestFirst ==
    /\ Len(chain) = Len(created)
    /\ \A i \in 1..Len(chain) :
          /\ chain[i].buf = Len(chain) - i + 1
          /\ chain[i].cap = created[chain[i].buf]

\* C16: add_chunk(n) puts a new empty chunk of capacity n at the head with
\* the old head as its direct predecessor; the old chain is kept as it was,
\* so the chain lists the chunks newest first and only grows by one chunk at
\* its head.
C16_AddChunk ==
    /\ []C16_NewestFirst
    /\ [][Len(chain') # Len(chain) =>
             /\ Len(chain') = Len(chain) + 1
             /\ chain'[1].len = 0
             /\ chain'[1].cap = 2 * cmp_max(chain[1].len, req.size)
             /\ chain'[1].data = [j \in 1..chain'[1].cap |-> Uninit]
             /\ Tail(chain') = chain]_vars

\* a third chunk has just been put in front of a partly filled one
C16_Witness ==
    /\ pc = "probe"
    /\ Len(chain) = 3
    /\ chain[1].len = 0
    /\ chain[2].len > 0
    /\ chain[1].cap > 0

\* C17: the fill length of a chunk never decreases.
C17_BumpMonotonic ==
    [][\A i \in 1..Len(chain) :
          After(i) \in 1..Len(chain') /\ chain'[After(i)].len >= chain[i].len]_vars

\* the offset of one chunk has advanced twice, the second time over padding
C17_Witness ==
    /\ Len(refs) = 2
    /\ refs[1].buf = refs[2].buf
    /\ refs[1].size > 0
    /\ refs[2].start > refs[1].start + refs[1].size

\* C18: every region alloc_raw returns starts at an offset that is a
\* multiple of the alignment asked for.
C18_AlignedOffsets ==
    /\ \A i \in 1..Len(refs) : refs[i].start % refs[i].align = 0
    /\ (pc \in {"write", "copy", "fill"}) => cur.start % req.T.align = 0

\* a region of alignment 4 starts at offset 4, behind a region that ends earlier
C18_Witness ==
    \E i, j \in 1..Len(refs) :
        /\ refs[j].align = 4
        /\ refs[j].start >= 4
        /\ refs[i].buf = refs[j].buf
        /\ refs[i].start + refs[i].size < refs[j].start
        /\ refs[i].size > 0

\* C19: a call adds at most one chunk: the probe of a freshly added head
\* succeeds, so alloc_raw probes at most twice; when the first probe
\* succeeds no chunk is added and capacity() is unchanged.
C19_AtMostOneGrowth ==
    /\ [](/\ probes <= 2
          /\ (pc = "probe" /\ probes = 1) =>
                /\ chain[1].len = 0
                /\ attempt_alloc_start(chain[1], req.size, req.T.align) = 0)
    /\ [][Grows => (probes = 0 /\ probes' = 1)]_vars
    /\ [][(ProbeSucceeded /\ probes = 0) =>
             (Len(chain') = Len(chain) /\ capacity(chain') = capacity(chain))]_vars

\* two calls have each grown the arena once and probed twice
C19_Witness ==
    /\ pc \in {"write", "copy", "fill"}
    /\ probes = 2
    /\ Len(chain) = 3
    /\ req.size > 0


\* what C14 says of a result of round_up
SmallestMultiple(base, align, result) ==
    /\ result >= base
    /\ result % align = 0
    /\ result < base + align
    /\ ~ \E m \in base..(result - 1) : m % align = 0

====
